---- MODULE Spec2Model ----
(***************************************************************************)
(* Model of the fingerprint identification worker (worker.js) of           *)
(* node-identity-fingerprint: the batched, cancellable search that drives  *)
(* chunks of templates through dpfp.identify() one after another with a    *)
(* @ntlab/work Queue, and reports one 'done' message per search.           *)
(*                                                                         *)
(* Each call of verify() creates one Queue object and one closure (work,   *)
(* count, matched); both are identified here by the position q of the      *)
(* search in `searches`.  The module-level variable `queue` of the worker  *)
(* holds such a position, or Null.                                          *)
(*                                                                         *)
(* Queue (library @ntlab/work/queue): next() shifts the head of the list   *)
(* and runs the handler on it, or calls done() when the list is empty;     *)
(* done() emits 'done'; clear() empties the list.  The library defers the  *)
(* handler and the emit with process.nextTick, which runs before the       *)
(* event loop delivers any other message or promise resolution, so they    *)
(* are part of the step that called next()/done().                         *)
(*                                                                         *)
(* The second part models FingerprintId.doOp (index.js): the stop-then-    *)
(* start protocol around the reader (@ntlab/dplib) and the status          *)
(* messages of an acquisition.                                             *)
(***************************************************************************)
EXTENDS Integers, Sequences, FiniteSets, TLC

\* ---- bounds of the model
MaxDo == 2
MaxIdx == 1
MaxBatch == 2
MaxThrow == 1
\* largest index of a range in PartitionSpec
MaxEnd == 4
\* calls of stopAcquire and messages of the identity in IdSpec
MaxCalls == 3
MaxMsgs == 3

\* ---- values
Null == -1
\* outcome codes of an engine call, besides the resolved offset (>= -1)
Rejected == -2
Thrown == -3

VARIABLES
    identifyCount,  \* const identifyCount = dpfp.getIdentificationLen()
    stop,           \* let stop
    queue,          \* let queue: Null or the position of a search
    searches,       \* the closures and Queue objects created by verify()
    calls,          \* dpfp.identify() promises not yet settled
    sent            \* messages given to Worker.send(), in order

\* The identity (index.js) is another process than the worker; its state:
VARIABLES
    ready,          \* this.ready
    acquiring,      \* what this.dp.isAcquiring() returns
    stopCalls,      \* the calls of the local stopAcquire(callback), in order
    acquires,       \* the calls of this.dp.startAcquire, with their xstatus
    messages,       \* messages given to this.sendMessage(), in order
    zips,           \* zip.generateAsync() promises not yet resolved
    fingers         \* this.fingers.length

workerVars == <<identifyCount, stop, queue, searches, calls, sent>>
idVars == <<ready, acquiring, stopCalls, acquires, messages, zips, fingers>>
vars == <<workerVars, idVars>>

\* The worker's mutable state as one record, threaded through the
\* callbacks; an action applies a callback to St and commits the result.
St == [stop |-> stop, queue |-> queue, searches |-> searches,
       calls |-> calls, sent |-> sent]

Commit(st) ==
    /\ stop' = st.stop
    /\ queue' = st.queue
    /\ searches' = st.searches
    /\ calls' = st.calls
    /\ sent' = st.sent
    /\ UNCHANGED idVars

\* ---- verify(): the chunk building loop

\* fmdsLoop without the test `current + i > end`: every chunk is full
RECURSIVE fmdsLoop_noBreak(_, _, _, _, _)
fmdsLoop_noBreak(n, current, end, i, fmds) ==
    IF i < n
    THEN fmdsLoop_noBreak(n, current, end, i + 1, Append(fmds, current + i))
    ELSE fmds

\* for (let i = 0; i < identifyCount; i++) { if (current + i > end) break;
\*     data.fmds.push(work.items[current + i]); }
\* a template is represented by its index in work.items
RECURSIVE fmdsLoop(_, _, _, _, _)
fmdsLoop(n, current, end, i, fmds) ==
    IF i < n /\ ~(current + i > end)
    THEN fmdsLoop(n, current, end, i + 1, Append(fmds, current + i))
    ELSE fmds

\* fpsLoop as a do ... while loop: the first chunk is built before the test
RECURSIVE fpsLoop_doWhile(_, _, _, _, _)
fpsLoop_doWhile(n, current, end, stp, fps) ==
    IF (current <= end /\ ~stp) \/ fps = <<>>
    THEN fpsLoop_doWhile(n, current + n, end, stp,
                 Append(fps, [start |-> current,
                              fmds |-> fmdsLoop(n, current, end, 0, <<>>)]))
    ELSE fps

\* while (current <= end && !stop) { ...; fps.push(data); current += identifyCount; }
RECURSIVE fpsLoop(_, _, _, _, _)
fpsLoop(n, current, end, stp, fps) ==
    IF current <= end /\ ~stp
    THEN fpsLoop(n, current + n, end, stp,
                 Append(fps, [start |-> current,
                              fmds |-> fmdsLoop(n, current, end, 0, <<>>)]))
    ELSE fps

\* ---- the Queue of a search and the callbacks of verify()

\* onDone without `queue = null`
onDone_keepQueue(st, q) ==
    [st EXCEPT
        !.searches[q].doneCount = st.searches[q].count,
        !.searches[q].doneSettled = st.searches[q].nSettled,
        !.sent = Append(@, [cmd |-> "done", work |-> st.searches[q].work,
                            matched |-> st.searches[q].matched])]

\* queue.once('done', () => { queue = null; log(count); Worker.send({...}) })
onDone(st, q) ==
    [st EXCEPT
        !.queue = Null,
        !.searches[q].doneCount = st.searches[q].count,
        !.searches[q].doneSettled = st.searches[q].nSettled,
        !.sent = Append(@, [cmd |-> "done", work |-> st.searches[q].work,
                            matched |-> st.searches[q].matched])]

\* Queue.done(): emit('done'); the listener was registered with once()
QueueDone(st, q) ==
    IF st.searches[q].listening
    THEN onDone([st EXCEPT !.searches[q].listening = FALSE], q)
    ELSE st

\* Queue.clear()
QueueClear(st, q) == [st EXCEPT !.searches[q].queues = <<>>]

\* History of search q: one more call of the engine, for chunk d, has
\* settled with res (an offset, -1, Rejected or Thrown).
Settled(st, q, d, res) ==
    LET s == st.searches[q]
        first == res >= 0 /\ ~s.stopped /\ s.hitStart = Null
    IN  [st EXCEPT
            !.searches[q].nSettled = @ + 1,
            !.searches[q].nMiss = IF res = -1 THEN @ + 1 ELSE @,
            !.searches[q].nFail = IF res \in {Rejected, Thrown} THEN @ + 1 ELSE @,
            !.searches[q].hitStart = IF first THEN d.start ELSE @,
            !.searches[q].hitIdx = IF first THEN res ELSE @]

RECURSIVE QueueNext(_, _, _)
RECURSIVE handler(_, _, _, _)
RECURSIVE errNext(_, _, _)

\* errNext that only logs the error
errNext_logOnly(st, q, k) == st

\* const errNext = err => { error(...); if (queue) { queue.next(); } }
\* of the closure of search q; k: how many of the next identify() calls
\* throw synchronously
errNext(st, q, k) ==
    IF st.queue # Null THEN QueueNext(st, st.queue, k) ELSE st

\* a handler that submits the chunk without counting it
handler_noCount(st, q, d, k) ==
    LET st1 == [st EXCEPT !.searches[q].sub = Append(@, d)]
    IN  IF k > 0
        THEN errNext(Settled(st1, q, d, Thrown), q, k - 1)
        ELSE [st1 EXCEPT !.calls = @ \cup {[q |-> q, d |-> d]}]

\* d => { try { count += d.fmds.length; dpfp.identify(work.feature, d.fmds)
\*        .then(...).catch(...) } catch (err) { errNext(err); } }
handler(st, q, d, k) ==
    LET st1 == [st EXCEPT !.searches[q].count = @ + Len(d.fmds),
                          !.searches[q].sub = Append(@, d)]
    IN  IF k > 0
        THEN errNext(Settled(st1, q, d, Thrown), q, k - 1)
        ELSE [st1 EXCEPT !.calls = @ \cup {[q |-> q, d |-> d]}]

\* Queue.next()
QueueNext(st, q, k) ==
    IF Len(st.searches[q].queues) > 0
    THEN handler([st EXCEPT !.searches[q].queues = Tail(@)], q,
                 Head(st.searches[q].queues), k)
    ELSE QueueDone(st, q)

\* function verify(work, start, end)
verify(st, n, work, start, end, k) ==
    LET q == Len(st.searches) + 1
        fps == fpsLoop(n, start, end, st.stop, <<>>)
        st1 == [st EXCEPT
                   !.queue = q,
                   !.searches = Append(@,
                       [work |-> work, start |-> start, end |-> end,
                        count |-> 0, matched |-> Null,
                        queues |-> fps, listening |-> TRUE,
                        \* history of the search
                        fps |-> fps, sub |-> <<>>, stopped |-> FALSE,
                        nSettled |-> 0, nMiss |-> 0, nFail |-> 0,
                        hitStart |-> Null, hitIdx |-> Null,
                        doneCount |-> Null, doneSettled |-> Null])]
    IN  QueueNext(st1, q, k)

\* a then-handler that stores the match in the search that holds `queue`
identifyThen_sharedMatched(st, c, idx, k) ==
    IF idx >= 0
    THEN LET m == IF st.queue # Null THEN st.queue ELSE c.q
             st1 == [st EXCEPT !.searches[m].matched = c.d.start + idx]
         IN  IF st1.queue # Null
             THEN QueueDone(st1, st1.queue)
             ELSE errNext(st1, c.q, k)
    ELSE IF st.queue # Null
         THEN QueueNext(st, st.queue, k)
         ELSE st

\* a then-handler that reports the offset within the chunk as the match
identifyThen_offsetOnly(st, c, idx, k) ==
    IF idx >= 0
    THEN LET st1 == [st EXCEPT !.searches[c.q].matched = idx]
         IN  IF st1.queue # Null
             THEN QueueDone(st1, st1.queue)
             ELSE errNext(st1, c.q, k)
    ELSE IF st.queue # Null
         THEN QueueNext(st, st.queue, k)
         ELSE st

\* .then(idx => { if (idx >= 0) { matched = d.start + idx; queue.done(); }
\*                else if (queue) { queue.next(); } })
\* queue.done() on a null queue throws a TypeError inside the then
\* callback, which the chained .catch hands to errNext.
identifyThen(st, c, idx, k) ==
    IF idx >= 0
    THEN LET st1 == [st EXCEPT !.searches[c.q].matched = c.d.start + idx]
         IN  IF st1.queue # Null
             THEN QueueDone(st1, st1.queue)
             ELSE errNext(st1, c.q, k)
    ELSE IF st.queue # Null
         THEN QueueNext(st, st.queue, k)
         ELSE st

\* a catch that swallows the error
identifyCatch_swallow(st, c, k) == st

\* .catch(err => errNext(err))
identifyCatch(st, c, k) == errNext(st, c.q, k)

\* ---- Worker.on('message')

\* case 'do': stop = false; verify(data.work, data.start, data.end);
OnMessageDo(st, n, work, start, end, k) ==
    verify([st EXCEPT !.stop = FALSE], n, work, start, end, k)

\* 'stop' that drops the queue without calling done()
OnMessageStop_noDone(st) ==
    LET st1 == [st EXCEPT !.stop = TRUE]
    IN  IF st1.queue # Null
        THEN [QueueClear([st1 EXCEPT
                 !.searches[st1.queue].stopped = TRUE], st1.queue)
                 EXCEPT !.queue = Null]
        ELSE st1

\* 'stop' that only raises the flag and leaves the queue to run out
OnMessageStop_flagOnly(st) ==
    LET st1 == [st EXCEPT !.stop = TRUE]
    IN  IF st1.queue # Null
        THEN [st1 EXCEPT !.searches[st1.queue].stopped = TRUE]
        ELSE st1

\* case 'stop': stop = true; if (queue) { queue.clear(); queue.done(); }
OnMessageStop(st) ==
    LET st1 == [st EXCEPT !.stop = TRUE]
    IN  IF st1.queue # Null
        THEN QueueDone(QueueClear([st1 EXCEPT
                 !.searches[st1.queue].stopped = TRUE], st1.queue), st1.queue)
        ELSE st1

\* ---- the promise of call c settles with res
Settle(st, c, res) ==
    Settled([st EXCEPT !.calls = @ \ {c}], c.q, c.d, res)

\* A closure of verify() that neither `queue` nor a pending promise refers
\* to can no longer be read or written by the worker: it is garbage, and
\* its record is reset before the next 'do' or engine callback runs.
Reachable(st, q) == st.queue = q \/ \E c \in st.calls : c.q = q

Collected ==
    [work |-> 0, start |-> 0, end |-> 0, count |-> 0, matched |-> Null,
     queues |-> <<>>, listening |-> FALSE, fps |-> <<>>, sub |-> <<>>,
     stopped |-> FALSE, nSettled |-> 0, nMiss |-> 0, nFail |-> 0,
     hitStart |-> Null, hitIdx |-> Null, doneCount |-> Null,
     doneSettled |-> Null]

Collect(st) ==
    [st EXCEPT !.searches =
        [q \in 1..Len(st.searches) |->
            IF Reachable(st, q) THEN st.searches[q] ELSE Collected]]

\* every 'do' received so far has been answered by a 'done' message
Answered == \A q \in 1..Len(searches) : ~searches[q].listening

Init ==
    /\ identifyCount \in 1..MaxBatch
    /\ stop = FALSE
    /\ queue = Null
    /\ searches = <<>>
    /\ calls = {}
    /\ sent = <<>>
    /\ ready = TRUE
    /\ acquiring = FALSE
    /\ stopCalls = <<>>
    /\ acquires = <<>>
    /\ messages = <<>>
    /\ zips = {}
    /\ fingers = 0

\* the coordinator sends 'do' with a new work item
Do(start, end, k) ==
    /\ Len(searches) < MaxDo
    /\ Commit(OnMessageDo(Collect(St), identifyCount, Len(searches) + 1, start, end, k))
    /\ UNCHANGED identifyCount

\* the coordinator sends 'stop'
Stop ==
    /\ Commit(OnMessageStop(St))
    /\ UNCHANGED identifyCount

\* the engine resolves a call with idx: -1, or an offset
Resolve(c, idx, k) ==
    /\ c \in calls
    /\ Commit(identifyThen(Settle(Collect(St), c, idx), c, idx, k))
    /\ UNCHANGED identifyCount

\* the engine rejects a call
Reject(c, k) ==
    /\ c \in calls
    /\ Commit(identifyCatch(Settle(Collect(St), c, Rejected), c, k))
    /\ UNCHANGED identifyCount

\* The coordinator keeps one search per worker: 'do' only when every
\* earlier 'do' has been answered.
Next ==
    \/ \E start \in 0..MaxIdx, end \in 0..MaxIdx, k \in 0..MaxThrow :
           Answered /\ Do(start, end, k)
    \/ Stop
    \/ \E c \in calls : \E idx \in -1..(Len(c.d.fmds) - 1), k \in 0..MaxThrow :
           Resolve(c, idx, k)
    \/ \E c \in calls, k \in 0..MaxThrow : Reject(c, k)

Spec == Init /\ [][Next]_vars

\* A coordinator that does not wait: 'do' may arrive while an earlier
\* search is still running, and verify() overwrites `queue`.
UnsyncNext ==
    \/ \E start \in 0..MaxIdx, end \in 0..MaxIdx, k \in 0..MaxThrow :
           Do(start, end, k)
    \/ Stop
    \/ \E c \in calls : \E idx \in -1..(Len(c.d.fmds) - 1), k \in 0..MaxThrow :
           Resolve(c, idx, k)
    \/ \E c \in calls, k \in 0..MaxThrow : Reject(c, k)

UnsyncSpec == Init /\ [][UnsyncNext]_vars

\* The chunk building loop of verify on longer ranges: 'do' with every
\* start and end up to MaxEnd, each search ended by 'stop'.
PartitionNext ==
    \/ \E start \in 0..MaxEnd, end \in 0..MaxEnd :
           Answered /\ Do(start, end, 0)
    \/ Stop

PartitionSpec == Init /\ [][PartitionNext]_vars

\* ---- FingerprintId.doOp (index.js)

\* the operations of doOp
ID_ACQUIRE == "acquire"
ID_ENROLL == "enroll"
ID_STOP == "stop"
\* let xstatus = null; also the status of a message that carries data
NoStatus == "null"

\* The identity's state as one record, threaded through the callbacks.
IdSt == [ready |-> ready, acquiring |-> acquiring, stopCalls |-> stopCalls,
         acquires |-> acquires, messages |-> messages, zips |-> zips,
         fingers |-> fingers]

IdCommit(st) ==
    /\ ready' = st.ready
    /\ acquiring' = st.acquiring
    /\ stopCalls' = st.stopCalls
    /\ acquires' = st.acquires
    /\ messages' = st.messages
    /\ zips' = st.zips
    /\ fingers' = st.fingers
    /\ UNCHANGED workerVars

\* this.sendMessage(this.getPrefix(msg), {...}), sent for the acquisition
\* acq, from the callback of the stopAcquire call `call` (0: from none)
sendMessage(st, msg, status, acq, call) ==
    [st EXCEPT !.messages = Append(@, [msg |-> msg, status |-> status,
                                       acq |-> acq, call |-> call])]

\* const startAcquire = () => { if (op === this.ID_ENROLL) this.fingers = [];
\*     let xstatus = null; this.dp.startAcquire(..., (status, data) => ...) }
\* called from the callback of the stopAcquire call `call`
startAcquire(st, op, call) ==
    LET st1 == IF op = ID_ENROLL THEN [st EXCEPT !.fingers = 0] ELSE st
    IN  [st1 EXCEPT !.acquiring = TRUE,
                    !.acquires = Append(@, [op |-> op, xstatus |-> NoStatus,
                                            call |-> call, active |-> TRUE])]

\* the callback handed to the stopAcquire call number s:
\*   main:     () => { if (op !== this.ID_STOP) { startAcquire(); } }
\*   complete: () => { this.sendMessage('acquire-complete', {data}) }
\*   enrolled: () => { ...; zip.generateAsync(...).then(...) }
callback(st, s) ==
    LET c == st.stopCalls[s]
    IN  CASE c.then = "main" ->
                 IF c.op # ID_STOP THEN startAcquire(st, c.op, s) ELSE st
          [] c.then = "complete" ->
                 sendMessage(st, "acquire-complete", NoStatus, c.acq, s)
          [] c.then = "enrolled" ->
                 [st EXCEPT !.zips = @ \cup {s}]

\* a stopAcquire that asks the reader to stop and goes on without waiting
stopAcquire_noWait(st, then, op, acq) ==
    LET s == Len(st.stopCalls) + 1
        st1 == [st EXCEPT !.stopCalls = Append(@,
                   [then |-> then, op |-> op, acq |-> acq,
                    needed |-> st.acquiring, fired |-> FALSE])]
    IN  callback(st1, s)

\* const stopAcquire = callback => {
\*     if (this.dp.isAcquiring()) { this.dp.stopAcquire(() => { callback(); }); }
\*     else { callback(); } }
stopAcquire(st, then, op, acq) ==
    LET s == Len(st.stopCalls) + 1
        st1 == [st EXCEPT !.stopCalls = Append(@,
                   [then |-> then, op |-> op, acq |-> acq,
                    needed |-> st.acquiring, fired |-> FALSE])]
    IN  IF st.acquiring THEN st1 ELSE callback(st1, s)

\* the message name of a status report
StatusMsg(op) == IF op = ID_ENROLL THEN "enroll-status" ELSE "acquire-status"

\* a status callback that reports every connection status it is given
onStatus_noMemory(st, a, status) ==
    LET q == st.acquires[a]
    IN  CASE status \in {"disconnected", "connected"} ->
                 sendMessage([st EXCEPT !.acquires[a].xstatus = status],
                             StatusMsg(q.op), status, a, 0)
          [] status = "error" ->
                 sendMessage(st, StatusMsg(q.op), status, a, 0)
          [] status = "complete" ->
                 IF q.op = ID_ENROLL
                 THEN sendMessage([st EXCEPT !.fingers = @ + 1],
                                  "enroll-complete", NoStatus, a, 0)
                 ELSE stopAcquire(st, "complete", q.op, a)
          [] status = "enrolled" ->
                 stopAcquire(st, "enrolled", q.op, a)

\* (status, data) => { switch (status) { ... } }: the callback given to
\* this.dp.startAcquire by the acquisition number a
onStatus(st, a, status) ==
    LET q == st.acquires[a]
    IN  CASE status \in {"disconnected", "connected"} ->
                 IF q.xstatus # status
                 THEN sendMessage([st EXCEPT !.acquires[a].xstatus = status],
                                  StatusMsg(q.op), status, a, 0)
                 ELSE st
          [] status = "error" ->
                 sendMessage(st, StatusMsg(q.op), status, a, 0)
          [] status = "complete" ->
                 IF q.op = ID_ENROLL
                 THEN sendMessage([st EXCEPT !.fingers = @ + 1],
                                  "enroll-complete", NoStatus, a, 0)
                 ELSE stopAcquire(st, "complete", q.op, a)
          [] status = "enrolled" ->
                 stopAcquire(st, "enrolled", q.op, a)

\* doOp(op) { if (this.ready) { ...; stopAcquire(() => {...}); } }
doOp(st, op) ==
    IF st.ready THEN stopAcquire(st, "main", op, 0) ELSE st

\* init(): this.ready = false; if (this.dp.init(...)) { this.ready = true; }
IdInit ==
    /\ identifyCount = 1
    /\ stop = FALSE
    /\ queue = Null
    /\ searches = <<>>
    /\ calls = {}
    /\ sent = <<>>
    /\ ready \in BOOLEAN
    /\ acquiring = FALSE
    /\ stopCalls = <<>>
    /\ acquires = <<>>
    /\ messages = <<>>
    /\ zips = {}
    /\ fingers = 0

\* the commands 'acquire', 'enroll' and 'stop'
DoOp(op) ==
    /\ Len(stopCalls) < MaxCalls
    /\ IdCommit(doOp(IdSt, op))

\* the reader reports a status to the acquisition a
DpStatus(a, status) ==
    /\ a \in 1..Len(acquires)
    /\ acquires[a].active
    /\ status = "enrolled" => acquires[a].op = ID_ENROLL
    /\ Len(stopCalls) < MaxCalls
    /\ Len(messages) < MaxMsgs
    /\ IdCommit(onStatus(IdSt, a, status))

\* the reader has stopped: it runs the callback of the stopAcquire call s
\* and reports to no acquisition started before
DpStopped(s) ==
    /\ s \in 1..Len(stopCalls)
    /\ stopCalls[s].needed /\ ~stopCalls[s].fired
    /\ Len(messages) < MaxMsgs
    /\ IdCommit(callback(
           [IdSt EXCEPT !.stopCalls[s].fired = TRUE,
                        !.acquiring = FALSE,
                        !.acquires = [a \in 1..Len(acquires) |->
                                         [acquires[a] EXCEPT !.active = FALSE]]],
           s))

\* the reader, asked to stop, reports that it is not acquiring any more
\* before it has run the callback
DpIdle ==
    /\ acquiring
    /\ \E s \in 1..Len(stopCalls) : stopCalls[s].needed /\ ~stopCalls[s].fired
    /\ IdCommit([IdSt EXCEPT !.acquiring = FALSE])

\* zip.generateAsync(...).then(buffer => { this.sendMessage('enroll-finished') })
ZipDone(s) ==
    /\ s \in zips
    /\ Len(messages) < MaxMsgs
    /\ IdCommit(sendMessage([IdSt EXCEPT !.zips = @ \ {s}],
                            "enroll-finished", NoStatus, stopCalls[s].acq, s))

IdNext ==
    \/ \E op \in {ID_ACQUIRE, ID_ENROLL, ID_STOP} : DoOp(op)
    \/ \E a \in 1..Len(acquires) :
           \E status \in {"disconnected", "connected", "error",
                          "complete", "enrolled"} : DpStatus(a, status)
    \/ \E s \in 1..Len(stopCalls) : DpStopped(s)
    \/ DpIdle
    \/ \E s \in zips : ZipDone(s)

IdSpec == IdInit /\ [][IdNext]_vars

TypeOK ==
    /\ identifyCount \in 1..MaxBatch
    /\ stop \in BOOLEAN
    /\ queue \in {Null} \cup (1..Len(searches))
    /\ Len(searches) <= MaxDo
    /\ Len(sent) <= Len(searches)

\* ---- notions used by the properties

\* the 'done' messages sent for the 'do' command number w
Dones(w) == {i \in 1..Len(sent) : sent[i].cmd = "done" /\ sent[i].work = w}

\* the searches whose closure is still recorded
Live == {q \in 1..Len(searches) : searches[q].work # 0}

\* the one 'done' message of search q
DoneOf(q) == sent[CHOOSE i \in Dones(q) : TRUE]

\* C1: provided 'do' is only issued when no search is active, every 'do'
\* is answered by exactly one 'done': the search held by `queue` has none
\* yet, every other has exactly one, whatever calls resolved late, and
\* every 'done' answers a 'do' that was received.
C1_ExactlyOneDone ==
    /\ \A i \in 1..Len(sent) :
           sent[i].cmd = "done" /\ sent[i].work \in 1..Len(searches)
    /\ \A w \in 1..Len(searches) :
           Cardinality(Dones(w)) = IF w = queue THEN 0 ELSE 1

\* a call that was in flight when 'stop' ended search 1 has settled after
\* its 'done', with a second search accepted in between
C1_Witness ==
    /\ Len(searches) = 2 /\ Len(sent) = 2
    /\ searches[1].stopped
    /\ searches[1].nSettled > searches[1].doneSettled

\* ---- the engine settles one of the pending calls
EngineSettles ==
    \E c \in calls : \E k \in 0..MaxThrow :
        \/ \E idx \in -1..(Len(c.d.fmds) - 1) : Resolve(c, idx, k)
        \/ Reject(c, k)

\* The engine eventually resolves or rejects every call it was given.
FairSpec == Init /\ [][Next]_vars /\ WF_vars(EngineSettles)

\* C2: if the engine settles every call, every 'do' received is eventually
\* followed by a 'done' message that carries its work item.
C2_EveryDoAnswered ==
    \A w \in 1..MaxDo : (Len(searches) >= w) ~> (Dones(w) # {})

\* a search whose calls all failed or missed has been answered after its
\* last chunk, without 'stop'
C2_Witness ==
    \E q \in Live :
        /\ ~searches[q].stopped /\ searches[q].nFail >= 1
        /\ searches[q].nSettled = Len(searches[q].fps)
        /\ searches[q].nSettled >= 2
        /\ Dones(q) # {}

\* sum of the chunk sizes of a list of chunks
RECURSIVE SumSizes(_)
SumSizes(fps) ==
    IF fps = <<>> THEN 0 ELSE Len(Head(fps).fmds) + SumSizes(Tail(fps))

\* C5: for start <= end the chunks built by verify partition [start,end]:
\* sizes sum to end - start + 1, the first chunk starts at start, each
\* next one at the previous start plus the previous size, a chunk holds
\* the templates start..start+size-1, at most identifyCount of them, and
\* only the last chunk holds fewer.
C5_Partition ==
    \A q \in Live :
        LET s == searches[q]
            f == s.fps
        IN  s.start <= s.end =>
            /\ Len(f) >= 1
            /\ SumSizes(f) = s.end - s.start + 1
            /\ f[1].start = s.start
            /\ \A i \in 2..Len(f) :
                   f[i].start = f[i-1].start + Len(f[i-1].fmds)
            /\ \A i \in 1..Len(f) :
                   /\ Len(f[i].fmds) \in 1..identifyCount
                   /\ i < Len(f) => Len(f[i].fmds) = identifyCount
                   /\ \A j \in 1..Len(f[i].fmds) :
                          f[i].fmds[j] = f[i].start + j - 1

\* a range cut into a full chunk and a shorter last chunk
C5_Witness ==
    \E q \in Live :
        /\ Len(searches[q].fps) >= 2
        /\ identifyCount >= 2
        /\ Len(searches[q].fps[Len(searches[q].fps)].fmds) < identifyCount

\* C7: a 'stop' received while no search is active sends nothing, submits
\* nothing and leaves the worker idle: only the stop flag is set.
C7_StopWhenIdle ==
    [][(Answered /\ Stop) =>
           (queue = Null /\ UNCHANGED <<queue, searches, calls, sent>>)]_vars

\* 'stop' was received after the only search had ended by itself
C7_Witness ==
    /\ stop /\ queue = Null
    /\ Len(searches) = 1 /\ Len(sent) = 1
    /\ ~searches[1].stopped

\* C9: a 'do' with start > end is answered at once by exactly one 'done'
\* with matched = null, after 0 processed templates, and identify is
\* never called for that search.
C9_EmptyRange ==
    \A q \in Live :
        searches[q].start > searches[q].end =>
            /\ searches[q].fps = <<>> /\ searches[q].sub = <<>>
            /\ searches[q].nSettled = 0
            /\ \A c \in calls : c.q # q
            /\ Cardinality(Dones(q)) = 1
            /\ DoneOf(q).matched = Null
            /\ searches[q].doneCount = 0

\* a 'do' with an empty range has been answered
C9_Witness ==
    \E q \in Live : searches[q].start > searches[q].end /\ Dones(q) # {}

\* if every chunk of search q failed, its 'done' carries matched = null
AllFailed ==
    \A q \in Live :
        (Len(searches[q].fps) >= 1 /\ searches[q].nFail = Len(searches[q].fps))
            => (Dones(q) # {} /\ DoneOf(q).matched = Null)

\* the active search always has a call pending: it never stalls
NoStall == \A q \in Live : queue = q => \E c \in calls : c.q = q

\* C10: a failed engine call counts as 'no match' for its chunk only.  When
\* a call of the active search is rejected, the next chunk is submitted if
\* one remains, else 'done' is sent with the matched value reached so far;
\* after a synchronous throw too the active search keeps a call pending;
\* and a search whose chunks all failed ends with matched = null.
C10_FailureIsNoMatch ==
    [][/\ AllFailed' /\ NoStall'
       /\ \A c \in calls : (queue = c.q /\ c \notin calls') =>
            \A k \in 0..MaxThrow :
              Reject(c, k) =>
                LET s == searches[c.q]
                IN  IF s.queues # <<>>
                    THEN /\ Len(searches'[c.q].sub) > Len(s.sub)
                         /\ searches'[c.q].sub[Len(s.sub) + 1] = Head(s.queues)
                    ELSE /\ Len(sent') = Len(sent) + 1
                         /\ sent'[Len(sent')].work = s.work
                         /\ sent'[Len(sent')].matched = s.matched]_vars

\* the first chunk of a search failed and a later chunk matched
C10_Witness ==
    /\ Len(searches) = 1 /\ ~searches[1].stopped
    /\ searches[1].nFail >= 1
    /\ Dones(1) # {}
    /\ searches[1].hitStart > searches[1].start
    /\ DoneOf(1).matched = searches[1].hitStart + searches[1].hitIdx

\* C3: if a call for the chunk starting at s resolves with an offset
\* o >= 0 while its search has not been cancelled, the 'done' message of
\* that search carries matched = s + o, and no chunk with a start larger
\* than s is ever submitted for that search.
C3_MatchReported ==
    \A q \in Live :
        searches[q].hitStart # Null =>
            /\ Dones(q) # {}
            /\ DoneOf(q).matched = searches[q].hitStart + searches[q].hitIdx
            /\ \A i \in 1..Len(searches[q].sub) :
                   searches[q].sub[i].start <= searches[q].hitStart

\* C4: if every chunk of [start,end] resolved with -1 and no 'stop'
\* arrived during the search, its 'done' carries matched = null, was sent
\* when the last chunk had resolved, after end - start + 1 processed
\* templates, every chunk having been submitted once.
C4_Exhausted ==
    \A q \in Live :
        LET s == searches[q]
        IN  (~s.stopped /\ Len(s.fps) >= 1 /\ s.nMiss = Len(s.fps)) =>
                /\ Dones(q) # {}
                /\ DoneOf(q).matched = Null
                /\ s.doneSettled = Len(s.fps)
                /\ s.doneCount = s.end - s.start + 1
                /\ s.sub = s.fps

\* C6: at most one engine call is outstanding at any time.
C6_OneCallOutstanding == Cardinality(calls) <= 1

\* C8: a 'stop' received while a search is running and before any of its
\* calls has settled sends its 'done' in the same step, with matched =
\* null, after a processed count of 0 or of the size of the one chunk in
\* flight.
C8_StopBeforeAnyResult ==
    [][(Stop /\ queue # Null /\ searches[queue].nSettled = 0) =>
           /\ sent' = Append(sent, [cmd |-> "done",
                                    work |-> searches[queue].work,
                                    matched |-> Null])
           /\ searches'[queue].doneCount \in
                  {0} \cup {Len(c.d.fmds) : c \in {x \in calls : x.q = queue}}
      ]_vars

\* C11: once 'stop' has been received while a search is running, no
\* further chunk of that search is submitted to the engine: neither by the
\* 'stop' step itself nor by any later step, whatever the call in flight
\* does.
C11_NoSubmitAfterStop ==
    [][\A q \in 1..Len(searches) :
           (q <= Len(searches') /\ searches'[q].stopped) =>
               searches'[q].sub = searches[q].sub]_vars

\* a search of two chunks was stopped with its first call in flight, and
\* that call has resolved since: the second chunk was never submitted
C11_Witness ==
    \E q \in Live :
        /\ searches[q].stopped
        /\ Len(searches[q].fps) = 2
        /\ Len(searches[q].sub) = 1
        /\ searches[q].nMiss = 1
        /\ searches[q].doneSettled = 0

\* C12: the result of a call that was in flight when 'stop' ended its
\* search is discarded: the step in which it settles sends no 'done',
\* submits no chunk of any search and leaves the matched value of every
\* other search alone, also when a new 'do' was accepted in between.
C12_StaleResultDiscarded ==
    [][\A c \in calls :
           (searches[c.q].stopped /\ c \notin calls') =>
               /\ sent' = sent
               /\ calls' \subseteq calls
               /\ \A q \in 1..Len(searches) :
                      /\ Len(searches'[q].sub) <= Len(searches[q].sub)
                      /\ (q # c.q /\ searches'[q].work # 0) =>
                             searches'[q].matched = searches[q].matched]_vars

\* C13: a 'do' clears an earlier cancellation. The search of the 'do'
\* that follows a search ended by 'stop' is a full one: the whole range
\* is partitioned as if no 'stop' had ever been received, its first chunk
\* is submitted, and when its 'done' has been sent then it was stopped
\* itself, or it has a match, or every chunk of it was submitted.
C13_DoClearsCancellation ==
    \A q \in Live :
        LET s == searches[q]
        IN  (q > 1 /\ searches[q - 1].stopped) =>
                /\ s.fps = fpsLoop(identifyCount, s.start, s.end, FALSE, <<>>)
                /\ s.fps # <<>> => s.sub # <<>>
                /\ Dones(q) # {} =>
                       \/ s.stopped
                       \/ s.matched # Null
                       \/ s.sub = s.fps

\* C14: with engine offsets o such that 0 <= o < size of the submitted
\* chunk, the matched value of every 'done' message is null or an index
\* within the [start,end] range of the 'do' whose work item it carries.
C14_MatchedInRange ==
    \A q \in Live :
        \A i \in Dones(q) :
            \/ sent[i].matched = Null
            \/ /\ searches[q].start <= sent[i].matched
               /\ sent[i].matched <= searches[q].end

\* a 'done' carries the last index of its range, found at an offset
\* greater than 0 of a chunk
C14_Witness ==
    \E q \in Live :
        /\ Dones(q) # {}
        /\ DoneOf(q).matched = searches[q].end
        /\ searches[q].hitIdx >= 1

\* C15: within one search the chunks are submitted in strictly ascending
\* order of their start index, and a chunk is submitted only after the
\* call of the preceding chunk has resolved or failed: the submissions
\* are at most one ahead of the settled calls.
C15_OrderedOneAtATime ==
    \A q \in Live :
        LET s == searches[q]
        IN  /\ \A i \in 2..Len(s.sub) : s.sub[i - 1].start < s.sub[i].start
            /\ Len(s.sub) <= s.nSettled + 1

\* C16 as stated: the processed count of a search grows by a chunk's size
\* only in a step in which that chunk's call resolves with -1: a search
\* that was just started has count 0, and in every other step the count
\* grows by the size of the chunk that resolved with -1, or not at all.
C16_CountOnlyOnMiss ==
    [][/\ Len(searches') > Len(searches) =>
              searches'[Len(searches')].count = 0
       /\ \A q \in 1..Len(searches) :
              (searches[q].work # 0 /\ searches'[q].work # 0) =>
                  LET gone == {c \in calls \ calls' : c.q = q}
                  IN  searches'[q].count - searches[q].count =
                          IF searches'[q].nMiss > searches[q].nMiss
                          THEN Len((CHOOSE c \in gone : TRUE).d.fmds)
                          ELSE 0]_vars

\* C16 amended: the processed count of a search is the total size of the
\* chunks submitted so far: it grows by a chunk's size when the chunk is
\* handed to the handler, before the engine is called, and is changed by
\* no result, match, failure or cancellation.
C16_CountAtSubmission ==
    \A q \in Live : searches[q].count = SumSizes(searches[q].sub)

\* a search matched in its second chunk: both chunks are counted, one
\* resolved with -1
C16_Witness ==
    \E q \in Live :
        /\ searches[q].nMiss = 1
        /\ searches[q].hitStart # Null
        /\ Dones(q) # {}
        /\ searches[q].doneCount = SumSizes(searches[q].fps)
        /\ Len(searches[q].fps) = 2

\* C17: also when 'do' arrives while an earlier search is running, there
\* are never more 'done' messages than 'do' commands, no 'do' is answered
\* twice, every 'done' carries the work of a received 'do', and its
\* matched value is null or an index of a chunk submitted for that 'do'.
C17_UnsyncDoneSound ==
    /\ Len(sent) <= Len(searches)
    /\ \A i \in 1..Len(sent) :
           sent[i].cmd = "done" /\ sent[i].work \in 1..Len(searches)
    /\ \A w \in 1..Len(searches) : Cardinality(Dones(w)) <= 1
    /\ \A q \in Live :
           \A i \in Dones(q) :
               \/ sent[i].matched = Null
               \/ \E j \in 1..Len(searches[q].sub) :
                      \E m \in 1..Len(searches[q].sub[j].fmds) :
                          searches[q].sub[j].fmds[m] = sent[i].matched

\* a second 'do' overwrote the running first search; a chunk of the first
\* then matched, which ended the second search with matched = null
C17_Witness ==
    /\ Len(searches) = 2
    /\ searches[1].listening
    /\ searches[1].matched # Null
    /\ Dones(1) = {}
    /\ Dones(2) # {}
    /\ DoneOf(2).matched = Null

\* the stopAcquire call s has completed: its callback has run
Completed(s) == stopCalls[s].needed => stopCalls[s].fired

\* C18: doOp starts an acquisition only when the identity is ready, only
\* for acquire and enroll, and only from the main stop step once that has
\* completed: if the reader was acquiring, after the stopAcquire callback
\* fired.  'acquire-complete' and 'enroll-finished' are sent only after
\* the stop step of their 'complete' or 'enrolled' status has completed.
C18_StartAfterStop ==
    /\ ~ready => (stopCalls = <<>> /\ acquires = <<>> /\ messages = <<>>)
    /\ \A a \in 1..Len(acquires) :
           LET c == stopCalls[acquires[a].call]
           IN  /\ acquires[a].op \in {ID_ACQUIRE, ID_ENROLL}
               /\ c.then = "main" /\ c.op = acquires[a].op
               /\ Completed(acquires[a].call)
    /\ \A i \in 1..Len(messages) :
           LET m == messages[i]
           IN  /\ m.msg = "acquire-complete" =>
                      (stopCalls[m.call].then = "complete" /\ Completed(m.call))
               /\ m.msg = "enroll-finished" =>
                      (stopCalls[m.call].then = "enrolled" /\ Completed(m.call))
    /\ \A s \in zips : stopCalls[s].then = "enrolled" /\ Completed(s)

\* an enroll was started while the reader was acquiring, after the reader
\* had stopped; it finished, and 'enroll-finished' was sent after the
\* reader had stopped again
C18_Witness ==
    \E i \in 1..Len(messages) :
        /\ messages[i].msg = "enroll-finished"
        /\ stopCalls[messages[i].call].needed
        /\ stopCalls[messages[i].call].fired
        /\ stopCalls[acquires[messages[i].acq].call].needed
        /\ stopCalls[acquires[messages[i].acq].call].fired

\* the 'connected' and 'disconnected' messages of the acquisition a
ConnMsgs(a) ==
    SelectSeq(messages,
              LAMBDA m : m.acq = a /\ m.status \in {"connected", "disconnected"})

\* C19: within one acquisition no two consecutive connection status
\* messages are equal, xstatus is the last one reported, and an 'error'
\* status is always reported and leaves xstatus as it was.
C19_StatusOnlyOnChange ==
    [][/\ \A a \in 1..Len(acquires') :
              LET cs == ConnMsgs(a)'
              IN  /\ \A i \in 2..Len(cs) : cs[i].status # cs[i - 1].status
                  /\ acquires'[a].xstatus =
                         IF cs = <<>> THEN NoStatus ELSE cs[Len(cs)].status
       /\ \A a \in 1..Len(acquires) :
              DpStatus(a, "error") =>
                  /\ messages' = Append(messages,
                         [msg |-> StatusMsg(acquires[a].op), status |-> "error",
                          acq |-> a, call |-> 0])
                  /\ acquires'[a].xstatus = acquires[a].xstatus]_vars

\* one acquisition reported connected, then an error, then disconnected
C19_Witness ==
    \E a \in 1..Len(acquires) :
        /\ Len(messages) = 3
        /\ \A i \in 1..3 : messages[i].acq = a
        /\ messages[1].status = "connected"
        /\ messages[2].status = "error"
        /\ messages[3].status = "disconnected"
        /\ acquires[a].xstatus = "disconnected"
====
